---- MODULE Spec2Model ----
(***************************************************************************)
(* A model of mesh-level.py: the conversion of a bed probing log into a    *)
(* RepRapFirmware heightmap.csv.                                           *)
(*                                                                         *)
(* The script is one sequential run.  Its parts are modelled as four       *)
(* specifications over one set of variables, each exploring the inputs of  *)
(* one part:                                                               *)
(*   SpecSel   selectMeshInterval, one action per pass of its while loop   *)
(*   SpecAgg   parseProbedPoints and averageZOffset                        *)
(*   SpecArgs  the validation of the -X / -Y arguments                     *)
(*   Spec      the run from the parsed arguments to the written file       *)
(***************************************************************************)
EXTENDS Integers, Sequences, FiniteSets, TLC

VARIABLES
    pc,               \* the statement of the script the run has reached
    error,            \* the exception that ended the run, "none" while it runs
    xArg, yArg,       \* parsedArgs.x_extents, parsedArgs.y_extents (text)
    numPointsArg,     \* parsedArgs.num_points (text), NoArg when omitted
    xMin, xMax, yMin, yMax, maxSamplePoints, xPoints, yPoints,
    u, v, x, y, selPc,           \* the locals of selectMeshInterval
    logReadable, lines,          \* the probe log: can it be opened, its lines
    lineNo, probedPoints,        \* the locals of parseProbedPoints
    averagedPoints,              \* the return value of averageZOffset
    rbfInterpolator,             \* the points the Rbf object was built from
    upsampledBedMesh,            \* the return value of upsampleBedMesh
    strOut,                      \* writeHeightmap's str_out, as its lines
    fileBefore, heightmapFile    \* the heightmap file before the run, and now

argVars == <<xArg, yArg, numPointsArg>>
extVars == <<xMin, xMax, yMin, yMax>>
selVars == <<u, v, x, y, selPc>>
logVars == <<logReadable, lines>>
aggVars == <<lineNo, probedPoints, averagedPoints>>

outVars == <<rbfInterpolator, upsampledBedMesh, strOut, fileBefore,
            heightmapFile>>

vars == <<pc, error, argVars, extVars, maxSamplePoints, xPoints, yPoints,
          selVars, logVars, aggVars, outVars>>

----------------------------------------------------------------------------
\* Bounds of the explored inputs

\* selectMeshInterval: extents are drawn from -MaxCoord .. MaxCoord
MaxCoord == 2
\* selectMeshInterval: --max-points is drawn from -1 .. MaxBudget
MaxBudget == 12
\* the argument texts of -X and -Y are at most MaxArgLen characters long
MaxArgLen == 5
\* the probe log is at most MaxLines lines long
MaxLines == 3

Coords == (-MaxCoord) .. MaxCoord
Budgets == (-1) .. MaxBudget

\* the extents of the spec's worked example (xExtent = yExtent = 100)
SquareBed == <<0, 100, 0, 100>>

ExtentInputs ==
    {<<a, b, c, d>> : a \in Coords, b \in Coords, c \in Coords, d \in Coords}
        \cup {SquareBed}

\* line 73: the default of --max-points
DefaultMaxPoints == 441

\* --num-points omitted (argparse's default None)
NoArg == <<"None">>

RECURSIVE SeqsUpTo(_, _)
\* the sequences over S of length at most n
SeqsUpTo(S, n) ==
    IF n = 0 THEN {<<>>}
    ELSE LET shorter == SeqsUpTo(S, n - 1)
         IN  shorter \cup {Append(t, e) : t \in shorter, e \in S}

----------------------------------------------------------------------------
\* Text: a str is a sequence of one-character strings

Digits == {"0", "1", "2", "3", "4", "5", "6", "7", "8", "9"}

DigitVal(c) ==
    CASE c = "0" -> 0 [] c = "1" -> 1 [] c = "2" -> 2 [] c = "3" -> 3
      [] c = "4" -> 4 [] c = "5" -> 5 [] c = "6" -> 6 [] c = "7" -> 7
      [] c = "8" -> 8 [] c = "9" -> 9

RECURSIVE SkipDigits(_, _)
\* \d+ is greedy: the first position at or after i that holds no digit
SkipDigits(s, i) ==
    IF i <= Len(s) /\ s[i] \in Digits THEN SkipDigits(s, i + 1) ELSE i

\* -?\d+ matched at position i: the position after the match, 0 for no match
MatchNumber(s, i) ==
    LET j == IF i <= Len(s) /\ s[i] = "-" THEN i + 1 ELSE i
        k == SkipDigits(s, j)
    IN  IF k > j THEN k ELSE 0

\* '-?\d+:-?\d+' matched at position 1: the position after the match, 0 for
\* no match
MatchPair(s) ==
    LET k == MatchNumber(s, 1)
    IN  IF k # 0 /\ k <= Len(s) /\ s[k] = ":" THEN MatchNumber(s, k + 1) ELSE 0

\* lines 20-25: colonSeparatedNumbersPattern.match(arg_value): re.match
\* anchors the pattern at the start of the text only
ColonSeparatedNumbersArgType(arg_value) == MatchPair(arg_value) # 0

RECURSIVE SplitColon(_)
\* str.split(':')
SplitColon(s) ==
    IF \A i \in 1 .. Len(s) : s[i] # ":" THEN <<s>>
    ELSE LET k == CHOOSE i \in 1 .. Len(s) :
                      s[i] = ":" /\ \A j \in 1 .. (i - 1) : s[j] # ":"
         IN  <<SubSeq(s, 1, k - 1)>> \o SplitColon(SubSeq(s, k + 1, Len(s)))

RECURSIVE Strip(_)
\* int() ignores white space around the numeral
Strip(s) ==
    IF s # <<>> /\ Head(s) = " " THEN Strip(Tail(s))
    ELSE IF s # <<>> /\ s[Len(s)] = " " THEN Strip(SubSeq(s, 1, Len(s) - 1))
    ELSE s

\* the digit groups of a numeral: digits, single underscores between digits
IsNumeral(s) ==
    /\ s # <<>>
    /\ \A i \in 1 .. Len(s) : s[i] \in Digits \cup {"_"}
    /\ s[1] # "_" /\ s[Len(s)] # "_"
    /\ \A i \in 1 .. (Len(s) - 1) : ~ (s[i] = "_" /\ s[i + 1] = "_")

RECURSIVE NumeralVal(_)
NumeralVal(s) ==
    IF s = <<>> THEN 0
    ELSE IF s[Len(s)] = "_" THEN NumeralVal(SubSeq(s, 1, Len(s) - 1))
    ELSE 10 * NumeralVal(SubSeq(s, 1, Len(s) - 1)) + DigitVal(s[Len(s)])

\* int(val) of a str: [ok, val]; ok is FALSE where int raises ValueError
IntOf(val) ==
    LET t == Strip(val)
        signed == t # <<>> /\ t[1] \in {"-", "+"}
        body == IF signed THEN Tail(t) ELSE t
    IN  IF IsNumeral(body)
        THEN [ok |-> TRUE,
              val |-> IF signed /\ t[1] = "-" THEN 0 - NumeralVal(body)
                      ELSE NumeralVal(body)]
        ELSE [ok |-> FALSE, val |-> 0]

\* lines 116-117: splitIntArgs, [ok, vals]; ok is FALSE where an int() raises
SplitIntArgs(intArgs) ==
    LET fields == SplitColon(intArgs)
    IN  [ok |-> \A i \in 1 .. Len(fields) : IntOf(fields[i]).ok,
         vals |-> [i \in 1 .. Len(fields) |-> IntOf(fields[i]).val]]

\* "a, b = splitIntArgs(...)": [ok, vals]; ok is FALSE where an int() or the
\* unpacking of other than two values raises ValueError
UnpackPair(intArgs) ==
    LET r == SplitIntArgs(intArgs)
    IN  [ok |-> r.ok /\ Len(r.vals) = 2, vals |-> r.vals]

----------------------------------------------------------------------------
\* Argument processing (src/mesh-level.py:120-130)

\* line 120: parser.parse_args() applies the type of -X, -Y and -P to the
\* texts given; a type that raises ArgumentTypeError ends the run (exit 2)
ParseArgs ==
    /\ pc = "parse_args"
    /\ IF /\ ColonSeparatedNumbersArgType(xArg)
          /\ ColonSeparatedNumbersArgType(yArg)
          /\ (numPointsArg = NoArg \/ ColonSeparatedNumbersArgType(numPointsArg))
       THEN pc' = "split_x" /\ error' = error
       ELSE pc' = "exit" /\ error' = "ArgumentTypeError"
    /\ UNCHANGED <<argVars, extVars, maxSamplePoints, xPoints, yPoints,
                   selVars, logVars, aggVars>>
    /\ UNCHANGED outVars

\* line 121: xMin, xMax = splitIntArgs(parsedArgs.x_extents)
SplitX ==
    /\ pc = "split_x"
    /\ LET r == UnpackPair(xArg)
       IN  IF r.ok
           THEN /\ xMin' = r.vals[1] /\ xMax' = r.vals[2]
                /\ pc' = "split_y" /\ error' = error
           ELSE /\ pc' = "exit" /\ error' = "ValueError"
                /\ UNCHANGED <<xMin, xMax>>
    /\ UNCHANGED <<argVars, yMin, yMax, maxSamplePoints, xPoints, yPoints,
                   selVars, logVars, aggVars>>
    /\ UNCHANGED outVars

\* line 122: yMin, yMax = splitIntArgs(parsedArgs.y_extents)
SplitY ==
    /\ pc = "split_y"
    /\ LET r == UnpackPair(yArg)
       IN  IF r.ok
           THEN /\ yMin' = r.vals[1] /\ yMax' = r.vals[2]
                /\ pc' = "points" /\ error' = error
           ELSE /\ pc' = "exit" /\ error' = "ValueError"
                /\ UNCHANGED <<yMin, yMax>>
    /\ UNCHANGED <<argVars, xMin, xMax, maxSamplePoints, xPoints, yPoints,
                   selVars, logVars, aggVars>>
    /\ UNCHANGED outVars

\* lines 126-127: the counts are given: xPoints, yPoints = splitIntArgs(...)
ExplicitPoints ==
    /\ pc = "points"
    /\ numPointsArg # NoArg
    /\ LET r == UnpackPair(numPointsArg)
       IN  IF r.ok
           THEN /\ xPoints' = r.vals[1] /\ yPoints' = r.vals[2]
                /\ pc' = "parse" /\ error' = error
           ELSE /\ pc' = "exit" /\ error' = "ValueError"
                /\ UNCHANGED <<xPoints, yPoints>>
    /\ UNCHANGED <<argVars, extVars, maxSamplePoints, selVars, logVars, aggVars>>
    /\ UNCHANGED outVars

\* lines 128-130 and 101-104: the counts are omitted: selectMeshInterval is
\* called and reaches its loop
SelectCall ==
    /\ pc = "points"
    /\ numPointsArg = NoArg
    /\ pc' = "select"
    /\ selPc' = "loop"
    /\ u' = 2 /\ v' = 2 /\ x' = 2 /\ y' = 2
    /\ UNCHANGED <<error, argVars, extVars, maxSamplePoints, xPoints, yPoints,
                   logVars, aggVars>>
    /\ UNCHANGED outVars

----------------------------------------------------------------------------
\* selectMeshInterval (src/mesh-level.py:100-114)

\* line 107: the while condition
LoopCond(uu, vv, maxPts) == (uu * vv) <= maxPts

\* line 110: (xSideLength / x) > (ySideLength / y).  Python's / on two ints is
\* the correctly rounded quotient; x and y are >= 2, so for the magnitudes
\* explored here the comparison of the two quotients is the comparison of
\* the cross products.
WidestIsX(xSideLength, xx, ySideLength, yy) ==
    (xSideLength * yy) > (ySideLength * xx)

\* a loop body that saves x, y after the increment instead of before it
LoopBodySaveLate(s, xSideLength, ySideLength) ==
    IF WidestIsX(xSideLength, s.u, ySideLength, s.v)
    THEN [u |-> s.u + 1, v |-> s.v, x |-> s.u + 1, y |-> s.v]
    ELSE [u |-> s.u, v |-> s.v + 1, x |-> s.u, y |-> s.v + 1]

\* a loop body whose comparison is >= : a tie grows x
LoopBodyTieX(s, xSideLength, ySideLength) ==
    IF ~ WidestIsX(ySideLength, s.v, xSideLength, s.u)
    THEN [u |-> s.u + 1, v |-> s.v, x |-> s.u, y |-> s.v]
    ELSE [u |-> s.u, v |-> s.v + 1, x |-> s.u, y |-> s.v]

\* a loop body that grows y only when y's spacing is strictly wider: a tie
\* grows nothing
LoopBodyNoTie(s, xSideLength, ySideLength) ==
    IF WidestIsX(xSideLength, s.u, ySideLength, s.v)
    THEN [u |-> s.u + 1, v |-> s.v, x |-> s.u, y |-> s.v]
    ELSE IF WidestIsX(ySideLength, s.v, xSideLength, s.u)
         THEN [u |-> s.u, v |-> s.v + 1, x |-> s.u, y |-> s.v]
         ELSE [u |-> s.u, v |-> s.v, x |-> s.u, y |-> s.v]

\* lines 108-113: one pass of the loop body on the locals s = [u, v, x, y]
LoopBody(s, xSideLength, ySideLength) ==
    IF WidestIsX(xSideLength, s.u, ySideLength, s.v)
    THEN [u |-> s.u + 1, v |-> s.v, x |-> s.u, y |-> s.v]
    ELSE [u |-> s.u, v |-> s.v + 1, x |-> s.u, y |-> s.v]

\* lines 107-113: one pass of the while loop
SelLoop ==
    /\ pc = "select" /\ selPc = "loop"
    /\ LoopCond(u, v, maxSamplePoints)
    /\ LET n == LoopBody([u |-> u, v |-> v, x |-> x, y |-> y],
                         xMax - xMin, yMax - yMin)
       IN  u' = n.u /\ v' = n.v /\ x' = n.x /\ y' = n.y
    /\ UNCHANGED <<pc, error, argVars, extVars, maxSamplePoints, xPoints,
                   yPoints, selPc, logVars, aggVars>>
    /\ UNCHANGED outVars

\* lines 114 and 130: the loop condition is false: return (x, y), which the
\* caller stores in xPoints, yPoints
SelReturn ==
    /\ pc = "select" /\ selPc = "loop"
    /\ ~ LoopCond(u, v, maxSamplePoints)
    /\ selPc' = "returned"
    /\ xPoints' = x /\ yPoints' = y
    /\ pc' = "parse"
    /\ UNCHANGED <<error, argVars, extVars, maxSamplePoints, u, v, x, y,
                   logVars, aggVars>>
    /\ UNCHANGED outVars

----------------------------------------------------------------------------
\* parseProbedPoints and averageZOffset (src/mesh-level.py:136-173)

\* A line of the log is [match |-> FALSE] where probePointPattern does not
\* match it, and [match |-> TRUE, X, Y, Z] where it does.  A captured group
\* is <<n>> for a numeral of value n (in thousandths) and <<>> for a text
\* float() rejects: every part of (-?\d*\.?\d*) is optional, so a group may
\* be "", "-" or ".".
NoMatch == [match |-> FALSE, X |-> <<>>, Y |-> <<>>, Z |-> <<>>]

\* lines 151-152: float(captured[i]); ok is FALSE where float raises ValueError
FloatOf(captured) ==
    IF Len(captured) = 1 THEN [ok |-> TRUE, val |-> captured[1]]
    ELSE [ok |-> FALSE, val |-> 0]

\* a grouping that keeps only the latest z of a coordinate
AddPointOverwrite(points, xyCoordinate, zOffset) ==
    IF \E i \in 1 .. Len(points) : points[i].xy = xyCoordinate
    THEN LET i == CHOOSE k \in 1 .. Len(points) : points[k].xy = xyCoordinate
         IN  [points EXCEPT ![i].z = <<zOffset>>]
    ELSE Append(points, [xy |-> xyCoordinate, z |-> <<zOffset>>])

\* lines 155-158: probedPoints is a dict, which keeps its keys in the order
\* of their first insertion: a sequence of [xy, z], no xy twice
AddPoint(points, xyCoordinate, zOffset) ==
    IF \E i \in 1 .. Len(points) : points[i].xy = xyCoordinate
    THEN LET i == CHOOSE k \in 1 .. Len(points) : points[k].xy = xyCoordinate
         IN  [points EXCEPT ![i].z = Append(@, zOffset)]
    ELSE Append(points, [xy |-> xyCoordinate, z |-> <<zOffset>>])

RECURSIVE Gcd(_, _)
Gcd(a, b) == IF b = 0 THEN a ELSE Gcd(b, a % b)

Abs(a) == IF a < 0 THEN 0 - a ELSE a

\* the quotient num / den, den > 0, as the fraction in lowest terms
Quotient(num, den) ==
    LET g == Gcd(Abs(num), den) IN <<num \div g, den \div g>>

RECURSIVE SumSeq(_)
SumSeq(zs) == IF zs = <<>> THEN 0 ELSE Head(zs) + SumSeq(Tail(zs))

\* line 171: sum(zOffsets) / len(zOffsets)
Mean(zOffsets) == Quotient(SumSeq(zOffsets), Len(zOffsets))

\* lines 163-173: averageZOffset
AverageZOffset(points) ==
    [xs |-> [i \in 1 .. Len(points) |-> points[i].xy[1]],
     ys |-> [i \in 1 .. Len(points) |-> points[i].xy[2]],
     zs |-> [i \in 1 .. Len(points) |-> Mean(points[i].z)]]

\* lines 141-145: open the log and read its lines; open() raises where the
\* log is missing or unreadable
ReadLog ==
    /\ pc = "parse"
    /\ IF logReadable
       THEN /\ pc' = "parse_loop" /\ error' = error
            /\ lineNo' = 1 /\ probedPoints' = <<>>
       ELSE /\ pc' = "exit" /\ error' = "OSError"
            /\ UNCHANGED <<lineNo, probedPoints>>
    /\ UNCHANGED <<argVars, extVars, maxSamplePoints, xPoints, yPoints, selVars,
                   logVars, averagedPoints>>
    /\ UNCHANGED outVars

\* lines 147-158: one pass of the loop over the lines
ParseLine ==
    /\ pc = "parse_loop"
    /\ lineNo <= Len(lines)
    /\ LET line == lines[lineNo]
           fx == FloatOf(line.X)
           fy == FloatOf(line.Y)
           fz == FloatOf(line.Z)
       IN  IF ~ line.match
           THEN /\ lineNo' = lineNo + 1
                /\ UNCHANGED <<pc, error, probedPoints>>
           ELSE IF fx.ok /\ fy.ok /\ fz.ok
           THEN /\ probedPoints' = AddPoint(probedPoints, <<fx.val, fy.val>>, fz.val)
                /\ lineNo' = lineNo + 1
                /\ UNCHANGED <<pc, error>>
           ELSE /\ pc' = "exit" /\ error' = "ValueError"
                /\ UNCHANGED <<lineNo, probedPoints>>
    /\ UNCHANGED <<argVars, extVars, maxSamplePoints, xPoints, yPoints, selVars,
                   logVars, averagedPoints>>
    /\ UNCHANGED outVars

\* lines 160 and 163-173: the lines are exhausted: return probedPoints, which
\* averageZOffset turns into the three arrays
Average ==
    /\ pc = "parse_loop"
    /\ lineNo > Len(lines)
    /\ averagedPoints' = AverageZOffset(probedPoints)
    /\ pc' = "rbf"
    /\ UNCHANGED <<error, argVars, extVars, maxSamplePoints, xPoints, yPoints,
                   selVars, logVars, lineNo, probedPoints>>
    /\ UNCHANGED outVars

----------------------------------------------------------------------------
\* upsampleBedMesh and buildMeshPoints (src/mesh-level.py:176-187)

\* scipy's Rbf is not part of the repository: its constructor either returns
\* an interpolator of the points it was given or raises, and the interpolator
\* evaluates to one height per location.  The height of the fitted surface at
\* (px, py) is kept as the term Surface(px, py).  The constructor returns
\* only for two or more points: on none its reduction over the empty
\* coordinate arrays raises, and on one its default epsilon divides by the
\* number of non-degenerate edges of the bounding box, which is zero.
Surface(px, py) == [at |-> <<px, py>>]

\* line 186: Rbf(averagedPoints[0], averagedPoints[1], averagedPoints[2],
\* smooth=0) returns.  No statement of the script looks at the number of
\* points before the call.
RbfFit ==
    /\ pc = "rbf"
    /\ Len(averagedPoints.xs) >= 2
    /\ rbfInterpolator' = averagedPoints
    /\ pc' = "mesh"
    /\ UNCHANGED <<error, argVars, extVars, maxSamplePoints, xPoints, yPoints,
                   selVars, logVars, aggVars>>
    /\ UNCHANGED <<upsampledBedMesh, strOut, fileBefore, heightmapFile>>

\* line 186: the constructor raises (which points it rejects is the
\* library's matter)
RbfRaises ==
    /\ pc = "rbf"
    /\ pc' = "exit" /\ error' = "RbfError"
    /\ UNCHANGED <<argVars, extVars, maxSamplePoints, xPoints, yPoints,
                   selVars, logVars, aggVars, outVars>>

\* np.linspace(start, stop, num), num >= 0: num evenly spaced values from
\* start to stop inclusive, each a fraction in lowest terms
Linspace(start, stop, num) ==
    [i \in 1 .. num |->
        IF num = 1 THEN <<start, 1>>
        ELSE Quotient(start * (num - 1) + (i - 1) * (stop - start), num - 1)]

\* a mesh grid with matrix ('ij') indexing: one row per x value
MeshGridIJ(xValues, yValues) ==
    [X |-> [r \in 1 .. Len(xValues) |-> [c \in 1 .. Len(yValues) |-> xValues[r]]],
     Y |-> [r \in 1 .. Len(xValues) |-> [c \in 1 .. Len(yValues) |-> yValues[c]]]]

\* np.meshgrid(xValues, yValues) with its default Cartesian ('xy') indexing:
\* two arrays of len(yValues) rows and len(xValues) columns
MeshGrid(xValues, yValues) ==
    [X |-> [r \in 1 .. Len(yValues) |-> [c \in 1 .. Len(xValues) |-> xValues[c]]],
     Y |-> [r \in 1 .. Len(yValues) |-> [c \in 1 .. Len(xValues) |-> yValues[r]]]]

\* lines 176-179: buildMeshPoints
BuildMeshPoints ==
    MeshGrid(Linspace(xMin, xMax, xPoints), Linspace(yMin, yMax, yPoints))

\* line 187: rbfInterpolator(*buildMeshPoints()): an array of the shape of
\* the mesh, the surface at each of its locations
Upsample(mesh) ==
    [r \in 1 .. Len(mesh.X) |->
        [c \in 1 .. Len(mesh.X[r]) |-> Surface(mesh.X[r][c], mesh.Y[r][c])]]

\* line 187: np.linspace raises ValueError on a negative number of samples
UpsampleBedMesh ==
    /\ pc = "mesh"
    /\ IF xPoints < 0 \/ yPoints < 0
       THEN /\ pc' = "exit" /\ error' = "ValueError"
            /\ UNCHANGED upsampledBedMesh
       ELSE /\ upsampledBedMesh' = Upsample(BuildMeshPoints)
            /\ pc' = "format" /\ error' = error
    /\ UNCHANGED <<argVars, extVars, maxSamplePoints, xPoints, yPoints,
                   selVars, logVars, aggVars>>
    /\ UNCHANGED <<rbfInterpolator, strOut, fileBefore, heightmapFile>>

----------------------------------------------------------------------------
\* writeHeightmap (src/mesh-level.py:190-216)

\* round(num / den, 2), den # 0, in hundredths: the nearest hundredth.  A
\* quotient halfway between two hundredths needs a denominator that is a
\* multiple of 8; such a quotient is a binary fraction, which round() takes
\* to the even neighbour.
Round2(num, den) ==
    LET n == IF den < 0 THEN 0 - (100 * num) ELSE 100 * num
        d == Abs(den)
        q == n \div d
        r == n % d
    IN  IF 2 * r < d THEN q
        ELSE IF 2 * r > d THEN q + 1
        ELSE IF q % 2 = 0 THEN q ELSE q + 1

\* round(val, 3) of a height of the surface
Round3(val) == [round3 |-> val]

\* lines 192-207: str_out, line by line
FormatHeightmap(mesh) ==
    <<  [kind |-> "header", vals |-> <<"generated at", "now">>],
        [kind |-> "columns", vals |-> <<"xmin", "xmax", "ymin", "ymax", "radius",
                                        "xspacing", "yspacing", "xnum", "ynum">>],
        [kind |-> "settings",
         vals |-> <<xMin, xMax, yMin, yMax, -1,
                    Round2(xMax - xMin, xPoints - 1),
                    Round2(yMax - yMin, yPoints - 1),
                    xPoints, yPoints>>] >>
    \o [r \in 1 .. Len(mesh) |->
            [kind |-> "row",
             vals |-> [c \in 1 .. Len(mesh[r]) |-> Round3(mesh[r][c])]]]

\* lines 192-209: build str_out and print it; the divisions of line 198
\* raise ZeroDivisionError where a count is 1
Format ==
    /\ pc = "format"
    /\ IF xPoints - 1 = 0 \/ yPoints - 1 = 0
       THEN /\ pc' = "exit" /\ error' = "ZeroDivisionError"
            /\ UNCHANGED strOut
       ELSE /\ strOut' = FormatHeightmap(upsampledBedMesh)
            /\ pc' = "open" /\ error' = error
    /\ UNCHANGED <<argVars, extVars, maxSamplePoints, xPoints, yPoints,
                   selVars, logVars, aggVars>>
    /\ UNCHANGED <<rbfInterpolator, upsampledBedMesh, fileBefore, heightmapFile>>

\* line 212: open(heightmapPath, 'w') creates the file, or truncates the one
\* that is there
OpenHeightmap ==
    /\ pc = "open"
    /\ heightmapFile' =
          [exists |-> TRUE, content |-> <<>>,
           mode |-> IF heightmapFile.exists THEN heightmapFile.mode ELSE "0644"]
    /\ pc' = "write"
    /\ UNCHANGED <<error, argVars, extVars, maxSamplePoints, xPoints, yPoints,
                   selVars, logVars, aggVars>>
    /\ UNCHANGED <<rbfInterpolator, upsampledBedMesh, strOut, fileBefore>>

\* line 212: open raises (a missing directory, no permission)
OpenFails ==
    /\ pc = "open"
    /\ pc' = "exit" /\ error' = "OSError"
    /\ UNCHANGED <<argVars, extVars, maxSamplePoints, xPoints, yPoints,
                   selVars, logVars, aggVars, outVars>>

\* lines 213-214: meshFile.write(str_out), and the close that ends the with
WriteContents ==
    /\ pc = "write"
    /\ heightmapFile' = [heightmapFile EXCEPT !.content = strOut]
    /\ pc' = "chmod"
    /\ UNCHANGED <<error, argVars, extVars, maxSamplePoints, xPoints, yPoints,
                   selVars, logVars, aggVars>>
    /\ UNCHANGED <<rbfInterpolator, upsampledBedMesh, strOut, fileBefore>>

\* lines 213-214: the write, or the flush of the close, raises (a full disk)
\* after k of the lines have reached the file
WriteFails ==
    /\ pc = "write"
    /\ \E k \in 0 .. (Len(strOut) - 1) :
          heightmapFile' = [heightmapFile EXCEPT !.content = SubSeq(strOut, 1, k)]
    /\ pc' = "exit" /\ error' = "OSError"
    /\ UNCHANGED <<argVars, extVars, maxSamplePoints, xPoints, yPoints,
                   selVars, logVars, aggVars>>
    /\ UNCHANGED <<rbfInterpolator, upsampledBedMesh, strOut, fileBefore>>

\* line 216: os.chmod(heightmapPath, 0o777)
Chmod ==
    /\ pc = "chmod"
    /\ heightmapFile' = [heightmapFile EXCEPT !.mode = "0777"]
    /\ pc' = "done"
    /\ UNCHANGED <<error, argVars, extVars, maxSamplePoints, xPoints, yPoints,
                   selVars, logVars, aggVars>>
    /\ UNCHANGED <<rbfInterpolator, upsampledBedMesh, strOut, fileBefore>>

\* line 216: os.chmod raises (the file is another user's)
ChmodFails ==
    /\ pc = "chmod"
    /\ pc' = "exit" /\ error' = "OSError"
    /\ UNCHANGED <<argVars, extVars, maxSamplePoints, xPoints, yPoints,
                   selVars, logVars, aggVars, outVars>>

----------------------------------------------------------------------------
\* Initial states

NoPoints == [xs |-> <<>>, ys |-> <<>>, zs |-> <<>>]

ArgsUnset == xArg = <<>> /\ yArg = <<>> /\ numPointsArg = NoArg
SelUnset == u = 0 /\ v = 0 /\ x = 0 /\ y = 0 /\ selPc = "idle"
AggUnset == lineNo = 0 /\ probedPoints = <<>> /\ averagedPoints = NoPoints

\* the heightmap file: does it exist, its lines, its permission bits
NoFile == [exists |-> FALSE, content |-> <<>>, mode |-> "none"]
OldFile == [exists |-> TRUE, content |-> <<"an earlier heightmap">>,
            mode |-> "0644"]

OutUnset ==
    /\ rbfInterpolator = NoPoints /\ upsampledBedMesh = <<>> /\ strOut = <<>>
    /\ heightmapFile = fileBefore

\* selectMeshInterval called (lines 101-104 done) on any extents and budget
InitSel ==
    /\ pc = "select" /\ error = "none"
    /\ ArgsUnset
    /\ \E ext \in ExtentInputs :
          xMin = ext[1] /\ xMax = ext[2] /\ yMin = ext[3] /\ yMax = ext[4]
    /\ maxSamplePoints \in Budgets
    /\ xPoints = 0 /\ yPoints = 0
    /\ u = 2 /\ v = 2 /\ x = 2 /\ y = 2 /\ selPc = "loop"
    /\ logReadable = TRUE /\ lines = <<>>
    /\ AggUnset
    /\ fileBefore = NoFile /\ OutUnset

NextSel ==
    \/ SelLoop
    \/ SelReturn

SpecSel == InitSel /\ [][NextSel]_vars

\* the interpreter runs the function to its end: a pass, or the return, that
\* can be taken is taken
SpecSelFair == SpecSel /\ WF_vars(NextSel)

\* the characters the explored argument texts are made of
ArgChars == {"1", "-", ":", " ", "_", "a"}

ArgTexts == SeqsUpTo(ArgChars, MaxArgLen)

\* the script started on any -X text, with -Y, or any -Y text, with -X, a
\* well-formed pair
InitArgs ==
    /\ pc = "parse_args" /\ error = "none"
    /\ \/ xArg \in ArgTexts /\ yArg = <<"1", ":", "1">>
       \/ xArg = <<"-", "1", ":", "1">> /\ yArg \in ArgTexts
    /\ numPointsArg = NoArg
    /\ xMin = 0 /\ xMax = 0 /\ yMin = 0 /\ yMax = 0
    /\ maxSamplePoints = DefaultMaxPoints
    /\ xPoints = 0 /\ yPoints = 0
    /\ SelUnset
    /\ logReadable = TRUE /\ lines = <<>>
    /\ AggUnset
    /\ fileBefore = NoFile /\ OutUnset

NextArgs ==
    \/ ParseArgs
    \/ SplitX
    \/ SplitY
    \/ SelectCall

SpecArgs == InitArgs /\ [][NextArgs]_vars

\* the coordinates and heights (in thousandths) of the explored logs
LogX == {<<0>>, <<10>>}
LogY == {<<0>>, <<10>>}
LogZ == {<<>>, <<100>>, <<200>>, <<225>>}

LogLines ==
    {NoMatch, [match |-> TRUE, X |-> <<>>, Y |-> <<0>>, Z |-> <<100>>]} \cup
    {[match |-> TRUE, X |-> cx, Y |-> cy, Z |-> cz] :
        cx \in LogX, cy \in LogY, cz \in LogZ}

\* parseProbedPoints called on any log
InitAgg ==
    /\ pc = "parse" /\ error = "none"
    /\ ArgsUnset
    /\ xMin = 0 /\ xMax = 0 /\ yMin = 0 /\ yMax = 0
    /\ maxSamplePoints = DefaultMaxPoints
    /\ xPoints = 2 /\ yPoints = 2
    /\ SelUnset
    /\ \/ logReadable = TRUE /\ lines \in SeqsUpTo(LogLines, MaxLines)
       \/ logReadable = FALSE /\ lines = <<>>
    /\ AggUnset
    /\ fileBefore = NoFile /\ OutUnset

NextAgg ==
    \/ ReadLog
    \/ ParseLine
    \/ Average

SpecAgg == InitAgg /\ [][NextAgg]_vars

\* the -X, -Y and -P texts, the budgets and the log lines of the explored runs
RunXArgs == {<<"0", ":", "2">>, <<"0", ":", "1", "0">>}
RunYArgs == {<<"0", ":", "1", "0">>, <<"3", ":", "1">>}
RunNumPointsArgs ==
    {NoArg, <<"2", ":", "2">>, <<"3", ":", "2">>, <<"2", ":", "4">>,
     <<"1", ":", "2">>, <<"2", ":", "1">>, <<"0", ":", "2">>,
     <<"-", "1", ":", "2">>, <<"2", ":", "2", ":", "2">>}
RunBudgets == {3, 6, 9}
RunLogLines ==
    {NoMatch,
     [match |-> TRUE, X |-> <<0>>, Y |-> <<0>>, Z |-> <<100>>],
     [match |-> TRUE, X |-> <<10>>, Y |-> <<0>>, Z |-> <<200>>]}

\* the script started: the arguments are texts of the command line, the log
\* and the heightmap file are what the file system holds
Init ==
    /\ pc = "parse_args" /\ error = "none"
    /\ xArg \in RunXArgs /\ yArg \in RunYArgs
    /\ numPointsArg \in RunNumPointsArgs
    /\ xMin = 0 /\ xMax = 0 /\ yMin = 0 /\ yMax = 0
    /\ IF numPointsArg = NoArg THEN maxSamplePoints \in RunBudgets
       ELSE maxSamplePoints = DefaultMaxPoints
    /\ xPoints = 0 /\ yPoints = 0
    /\ SelUnset
    /\ \/ logReadable = TRUE /\ lines \in SeqsUpTo(RunLogLines, MaxLines)
       \/ logReadable = FALSE /\ lines = <<>>
    /\ AggUnset
    /\ fileBefore \in {NoFile, OldFile} /\ OutUnset

Next ==
    \/ ParseArgs
    \/ SplitX
    \/ SplitY
    \/ ExplicitPoints
    \/ SelectCall
    \/ SelLoop
    \/ SelReturn
    \/ ReadLog
    \/ ParseLine
    \/ Average
    \/ RbfFit
    \/ RbfRaises
    \/ UpsampleBedMesh
    \/ Format
    \/ OpenHeightmap
    \/ OpenFails
    \/ WriteContents
    \/ WriteFails
    \/ Chmod
    \/ ChmodFails

Spec == Init /\ [][Next]_vars

----------------------------------------------------------------------------
\* The greedy sequence of selectMeshInterval, from (2, 2)

GreedyNext(p, xSideLength, ySideLength) ==
    IF xSideLength * p[2] > ySideLength * p[1]
    THEN <<p[1] + 1, p[2]>>
    ELSE <<p[1], p[2] + 1>>

RECURSIVE GreedyAt(_, _, _)
\* the k-th pair of the greedy sequence: (2, 2) followed by k greedy steps
GreedyAt(k, xSideLength, ySideLength) ==
    IF k = 0 THEN <<2, 2>>
    ELSE GreedyNext(GreedyAt(k - 1, xSideLength, ySideLength),
                    xSideLength, ySideLength)

\* C1: selectMeshInterval returns counts >= 2 on each axis; with
\* maxSamplePoints >= 4 their product is <= maxSamplePoints, and with
\* maxSamplePoints < 4 the result is exactly (2, 2).
C1_GridShape ==
    pc = "parse" /\ selPc = "returned" =>
        /\ x >= 2 /\ y >= 2
        /\ (maxSamplePoints >= 4 => x * y <= maxSamplePoints)
        /\ (maxSamplePoints < 4 => (x = 2 /\ y = 2))

C1_Witness ==
    /\ selPc = "returned"
    /\ maxSamplePoints >= 4
    /\ x * y = maxSamplePoints
    /\ x > 2 /\ y > 2

\* C2: the returned pair is a member of the greedy sequence from (2, 2) (x
\* grows exactly when xExtent / xCount > yExtent / yCount, otherwise y), it is
\* within the budget when the budget admits (2, 2), the next greedy pair
\* exceeds the budget, and the square bed with maxSamplePoints = 6 gives (2, 3).
C2_Greedy ==
    pc = "parse" /\ selPc = "returned" =>
        LET xs == xMax - xMin
            ys == yMax - yMin
            steps == (x - 2) + (y - 2)
            nxt == GreedyNext(<<x, y>>, xs, ys)
        IN  /\ <<x, y>> = GreedyAt(steps, xs, ys)
            /\ (maxSamplePoints >= 4 => x * y <= maxSamplePoints)
            /\ nxt[1] * nxt[2] > maxSamplePoints
            /\ (<<xMin, xMax, yMin, yMax>> = SquareBed /\ maxSamplePoints = 6
                    => <<x, y>> = <<2, 3>>)

C2_Witness ==
    /\ selPc = "returned"
    /\ <<xMin, xMax, yMin, yMax>> = SquareBed
    /\ maxSamplePoints = 6
    /\ <<x, y>> = <<2, 3>>

\* C10: selectMeshInterval terminates for every budget and every extent pair,
\* zero and negative side lengths included: every pass of the loop adds one
\* to exactly one of the two counts, which increases their product, and the
\* return is eventually reached.
C10_Terminates ==
    /\ [][selPc = "loop" /\ selPc' = "loop" =>
            /\ \/ (u' = u + 1 /\ v' = v)
               \/ (u' = u /\ v' = v + 1)
            /\ u' * v' > u * v]_vars
    /\ <>(selPc = "returned")

C10_Witness ==
    /\ selPc = "returned"
    /\ xMax - xMin < 0
    /\ yMax - yMin = 0
    /\ x * y > 4
----------------------------------------------------------------------------
\* The aggregation, read off the log

\* the lines of the log that hold a sample
SampleLines == {k \in 1 .. Len(lines) : lines[k].match}

SampleXY(k) == <<lines[k].X[1], lines[k].Y[1]>>

RECURSIVE SumZ(_)
\* the sum of the heights of the lines S
SumZ(S) ==
    IF S = {} THEN 0
    ELSE LET k == CHOOSE e \in S : TRUE
         IN  lines[k].Z[1] + SumZ(S \ {k})

\* C3: the aggregation yields three sequences of one length, one index per
\* distinct (x, y) of the samples and no (x, y) twice, with z[i] the sum of
\* the heights observed at (x[i], y[i]) divided by their number; a pair
\* observed once keeps its height, and a log without samples yields three
\* empty sequences.
C3_Aggregation ==
    pc = "rbf" =>
        LET a == averagedPoints
            n == Len(a.xs)
            At(i) == {k \in SampleLines : SampleXY(k) = <<a.xs[i], a.ys[i]>>}
        IN  /\ Len(a.ys) = n /\ Len(a.zs) = n
            /\ n = Cardinality({SampleXY(k) : k \in SampleLines})
            /\ \A i, j \in 1 .. n :
                  i # j => <<a.xs[i], a.ys[i]>> # <<a.xs[j], a.ys[j]>>
            /\ \A i \in 1 .. n :
                  /\ At(i) # {}
                  /\ a.zs[i][2] > 0
                  /\ a.zs[i][1] * Cardinality(At(i)) = a.zs[i][2] * SumZ(At(i))
                  /\ (Cardinality(At(i)) = 1 => a.zs[i] = <<SumZ(At(i)), 1>>)
            /\ (SampleLines = {} => a = NoPoints)

\* three samples, two of them at one coordinate with different heights whose
\* mean is not a whole number of thousandths
C3_Witness ==
    /\ pc = "rbf"
    /\ Cardinality(SampleLines) = 3
    /\ Len(averagedPoints.xs) = 2
    /\ \E i \in 1 .. 2 : averagedPoints.zs[i] = <<325, 2>>

----------------------------------------------------------------------------
\* The -X / -Y arguments

\* the text is exactly '-?\d+:-?\d+', a colon-separated pair of integers
IsIntegerPair(s) == MatchPair(s) = Len(s) + 1

\* C9: a run whose -X or -Y text is not exactly a colon-separated pair of
\* integers is rejected before any computation: selectMeshInterval is not
\* run on it.
C9_MalformedExtentsRejected ==
    pc = "select" => IsIntegerPair(xArg) /\ IsIntegerPair(yArg)

C9_Witness ==
    /\ pc = "exit"
    /\ error = "ValueError"
    /\ ~ IsIntegerPair(xArg)
----------------------------------------------------------------------------
\* The run from the aggregated points to the heightmap file

\* line 186 has been executed: the Rbf constructor was called, and returned
\* or raised
RbfCalled == pc \in {"mesh", "format", "open", "write", "chmod", "done"}
                \/ error = "RbfError"

\* C4: with 0 or 1 distinct coordinates the run ends before the interpolator
\* is constructed: the Rbf constructor is called, and the heightmap written,
\* only with 2 or more points.
C4_DegenerateRejected ==
    RbfCalled => Len(averagedPoints.xs) >= 2

\* C5: at the end of a run, a failed one included, the heightmap file holds
\* the complete new content or is as it was before the run.
C5_WriteAllOrNothing ==
    pc \in {"done", "exit"} =>
        \/ heightmapFile = fileBefore
        \/ (heightmapFile.exists /\ strOut # <<>> /\ heightmapFile.content = strOut)

\* C6: a run that reaches the interpolation has xPoints >= 2 and
\* yPoints >= 2, whether --num-points or selectMeshInterval gave them, and
\* the divisions of writeHeightmap never have a zero divisor.
C6_CountsAtLeastTwo ==
    /\ (pc \in {"mesh", "format"} => (xPoints >= 2 /\ yPoints >= 2))
    /\ error # "ZeroDivisionError"

\* the i-th of num evenly spaced values from start to stop
LatticeValue(start, stop, num, i) ==
    IF num = 1 THEN <<start, 1>>
    ELSE Quotient(start * (num - 1) + (i - 1) * (stop - start), num - 1)

\* C7: on normal completion the heightmap holds three header lines and then
\* yPoints data lines of xPoints values each, its settings line reports
\* xnum = xPoints and ynum = yPoints, and the value of data line r, column c
\* is the surface at the c-th x lattice value and the r-th y lattice value.
C7_HeightmapShape ==
    pc = "done" =>
        LET f == heightmapFile.content
        IN  /\ Len(f) = 3 + yPoints
            /\ f[1].kind = "header" /\ f[2].kind = "columns"
            /\ f[3].kind = "settings"
            /\ f[3].vals[8] = xPoints /\ f[3].vals[9] = yPoints
            /\ \A r \in 1 .. yPoints :
                  /\ f[3 + r].kind = "row"
                  /\ Len(f[3 + r].vals) = xPoints
                  /\ \A c \in 1 .. xPoints :
                        f[3 + r].vals[c] =
                            Round3(Surface(LatticeValue(xMin, xMax, xPoints, c),
                                           LatticeValue(yMin, yMax, yPoints, r)))

\* a completed run with more columns than rows
C7_Witness ==
    /\ pc = "done"
    /\ xPoints = 3 /\ yPoints = 2
    /\ Len(heightmapFile.content) = 5
====
